---- MODULE Spec2Model ----
(***************************************************************************)
(* A model of utils/principal_curvature.py: the SR1 Hessian approximator   *)
(* (sr1_hessian_iter, sr1_hessian) and the shape-operator / principal      *)
(* curvature functions.                                                    *)
(*                                                                         *)
(* Real numbers are exact rationals <<n, d>> in lowest terms with d > 0.   *)
(* A quantity the code divides by a square root is kept as the pair        *)
(* (value, squared divisor), so no square root is ever rounded.            *)
(***************************************************************************)
EXTENDS Integers, Sequences, FiniteSets, TLC

VARIABLES
    \* ---- SR1 approximator ----
    caller,        \* "sr1_hessian" (the aggregator) or "iter" (a consumer that collects the generator)
    kwargs,        \* the options the caller passes: [passed |-> set of names, val |-> values]
    n_points,      \* the probe count
    evaluator,     \* the matrix A of the evaluator f(x) = x^T A x / 2, gradient A x
    point,         \* the anchor point
    pc,            \* position of the caller: "call", "loop", "done", "raised"
    gen,           \* the generator's frame (its local variables)
    heap,          \* tensor objects by reference: ref -> matrix
    sr1_output,    \* the aggregator's loop variable: <<>> while unbound, else <<[ref, x_k]>>
    output_points, \* the aggregator's list of probe points
    collected,     \* what a collecting consumer holds: the yielded references
    result,        \* what the call returned
    error,         \* the exception the call raised, "none" if none
    trace,         \* history: one record per executed step of the generator
    \* ---- geometry ----
    pt_grad, pt_hess, coordinate_transformation, projection_subspace_of_interest,
    op,            \* which function was called: "none" before the call
    out            \* the outcome of the call

varsSR1 == <<caller, kwargs, n_points, evaluator, point, pc, gen, heap, sr1_output,
             output_points, collected, result, error, trace>>
varsGeom == <<pt_grad, pt_hess, coordinate_transformation, projection_subspace_of_interest,
              op, out>>
vars == <<caller, kwargs, n_points, evaluator, point, pc, gen, heap, sr1_output,
          output_points, collected, result, error, trace,
          pt_grad, pt_hess, coordinate_transformation, projection_subspace_of_interest,
          op, out>>

-----------------------------------------------------------------------------
(* Exact rational arithmetic *)

Abs(n) == IF n < 0 THEN -n ELSE n

RECURSIVE GCD(_, _)
GCD(a, b) == IF b = 0 THEN a ELSE GCD(b, a % b)

Rat(n, d) ==
    LET s == IF d < 0 THEN -1 ELSE 1
        g == GCD(Abs(n), Abs(d))
    IN  <<(s * n) \div g, (s * d) \div g>>

Int2Rat(n) == <<n, 1>>
Zero == <<0, 1>>
One == <<1, 1>>

RatAdd(a, b) == Rat(a[1] * b[2] + b[1] * a[2], a[2] * b[2])
RatNeg(a) == <<-a[1], a[2]>>
RatSub(a, b) == RatAdd(a, RatNeg(b))
RatMul(a, b) == Rat(a[1] * b[1], a[2] * b[2])
RatDiv(a, b) == Rat(a[1] * b[2], a[2] * b[1])
RatAbs(a) == <<Abs(a[1]), a[2]>>
RatLt(a, b) ==
    LET g == GCD(a[2], b[2])
    IN  a[1] * (b[2] \div g) < b[1] * (a[2] \div g)
RatGt(a, b) == RatLt(b, a)

-----------------------------------------------------------------------------
(* Vectors are sequences of rationals, matrices sequences of rows *)

RECURSIVE SumSeq(_)
SumSeq(s) == IF s = <<>> THEN Zero ELSE RatAdd(s[1], SumSeq(Tail(s)))

IntVec(v) == [i \in 1..Len(v) |-> Int2Rat(v[i])]
IntMat(m) == [i \in 1..Len(m) |-> IntVec(m[i])]

VecAdd(u, v) == [i \in 1..Len(u) |-> RatAdd(u[i], v[i])]
VecSub(u, v) == [i \in 1..Len(u) |-> RatSub(u[i], v[i])]
VecScale(c, v) == [i \in 1..Len(v) |-> RatMul(c, v[i])]
Dot(u, v) == SumSeq([i \in 1..Len(u) |-> RatMul(u[i], v[i])])
NormSq(v) == Dot(v, v)

Rows(m) == Len(m)
Cols(m) == IF Len(m) = 0 THEN 0 ELSE Len(m[1])
Eye(n) == [i \in 1..n |-> [j \in 1..n |-> IF i = j THEN One ELSE Zero]]
Transpose(m) == [j \in 1..Cols(m) |-> [i \in 1..Rows(m) |-> m[i][j]]]
MatVec(m, v) == [i \in 1..Rows(m) |-> Dot(m[i], v)]
MatMul(a, b) ==
    [i \in 1..Rows(a) |-> [j \in 1..Cols(b) |->
        SumSeq([k \in 1..Rows(b) |-> RatMul(a[i][k], b[k][j])])]]
MatAdd(a, b) == [i \in 1..Rows(a) |-> [j \in 1..Cols(a) |-> RatAdd(a[i][j], b[i][j])]]
MatScale(c, m) == [i \in 1..Rows(m) |-> [j \in 1..Cols(m) |-> RatMul(c, m[i][j])]]
Outer(u, v) == [i \in 1..Len(u) |-> [j \in 1..Len(v) |-> RatMul(u[i], v[j])]]

-----------------------------------------------------------------------------
(* SR1 Hessian approximator *)

\* The options sr1_hessian_iter recognizes and their defaults.
OptionNames == {"initial_scale", "random_walk", "learning_rate", "r", "lr_decay",
                "return_points", "progress"}
Defaults == [initial_scale |-> <<1, 1000000>>, random_walk |-> TRUE,
             learning_rate |-> One, r |-> <<1, 100000000>>, lr_decay |-> FALSE,
             return_points |-> FALSE, progress |-> TRUE]

\* A keyword argument as the generator's signature binds it.
Opt(name) == IF name \in kwargs.passed THEN kwargs.val[name] ELSE Defaults[name]

\* vector_f: the evaluator's gradient at x, flattened.
vector_f(x) == MatVec(evaluator, x)

\* A test that drops the relative tolerance: any nonzero denominator is accepted.
AcceptsAnyNonzero(denominator, tol, delta_x_k, rank_1_vector) == denominator # Zero

\* The acceptance test of the rank-one update, |denominator| > r*|dx|*|r1|,
\* stated on the squares (both sides are non-negative).
Accepts(denominator, tol, delta_x_k, rank_1_vector) ==
    RatGt(RatMul(denominator, denominator),
          RatMul(RatMul(tol, tol), RatMul(NormSq(delta_x_k), NormSq(rank_1_vector))))

\* A probe that chains off the previous probe.
ProbeFromPrevious(x_0, x_k_minus_1, noise) == VecAdd(x_k_minus_1, noise)

\* line 48: the probe point of a step, the perturbation added to x_0.
ProbePoint(x_0, x_k_minus_1, noise) == VecAdd(x_0, noise)

\* What a yield hands to the consumer: the generator's own tensor object.
YieldedRef(hessian_ref) == hessian_ref

\* ---- inputs of the SR1 runs ----
MaxPoints == 3

Perturbations == {IntVec(<<1, 0>>), IntVec(<<0, 1>>), IntVec(<<-1, 2>>)}
Evaluators == {IntMat(<<<<1, 0>>, <<0, 1>>>>), IntMat(<<<<2, 1>>, <<1, 3>>>>)}
Anchors == {IntVec(<<1, 0>>)}

PassedSets == {{}, {"return_points"}, {"initial_scale", "r"},
               {"initial_scale", "r", "return_points"},
               {"initial_scale", "r", "random_walk", "return_points"},
               {"initial_scale", "r", "random_walk", "lr_decay", "learning_rate", "progress"},
               OptionNames}
OptionValues == [initial_scale : {One}, random_walk : BOOLEAN, learning_rate : {One},
                 r : {<<1, 2>>, <<1, 10>>}, lr_decay : BOOLEAN, return_points : BOOLEAN,
                 progress : {FALSE}]
KwargsInputs ==
    {[passed |-> P,
      val |-> [initial_scale |-> IF "initial_scale" \in P THEN v.initial_scale ELSE Defaults.initial_scale,
               random_walk |-> IF "random_walk" \in P THEN v.random_walk ELSE Defaults.random_walk,
               learning_rate |-> IF "learning_rate" \in P THEN v.learning_rate ELSE Defaults.learning_rate,
               r |-> IF "r" \in P THEN v.r ELSE Defaults.r,
               lr_decay |-> IF "lr_decay" \in P THEN v.lr_decay ELSE Defaults.lr_decay,
               return_points |-> IF "return_points" \in P THEN v.return_points ELSE Defaults.return_points,
               progress |-> IF "progress" \in P THEN v.progress ELSE Defaults.progress]]
     : P \in PassedSets, v \in OptionValues}

\* The default initial_scale (1e-6) and r (1e-8) leave the 32-bit range of the
\* exact arithmetic once a step squares them: runs that execute a step pass both.
Representable(c, k, n) ==
    \/ {"initial_scale", "r"} \subseteq k.passed
    \/ n = 0
    \/ c = "sr1_hessian" /\ "return_points" \notin k.passed

NoFrame == [started |-> FALSE, i |-> 0, x_0 |-> <<>>, x_k_minus_1 |-> <<>>,
            gradient_k_minus_1 |-> <<>>, x_k |-> <<>>, gradient_k |-> <<>>,
            learning_rate |-> Zero, hessian_approximation |-> 0]

GeomIdle ==
    /\ pt_grad = <<>>
    /\ pt_hess = <<>>
    /\ coordinate_transformation = <<>>
    /\ projection_subspace_of_interest = <<>>
    /\ op = "none"
    /\ out = <<>>

InitSR1 ==
    /\ caller \in {"sr1_hessian", "iter"}
    /\ kwargs \in KwargsInputs
    /\ n_points \in 0..MaxPoints
    /\ Representable(caller, kwargs, n_points)
    /\ evaluator \in Evaluators
    /\ point \in Anchors
    /\ pc = "call"
    /\ gen = NoFrame
    /\ heap = <<>>
    /\ sr1_output = <<>>
    /\ output_points = <<>>
    /\ collected = <<>>
    /\ result = <<>>
    /\ error = "none"
    /\ trace = <<>>
    /\ GeomIdle

\* sr1_hessian, line 91: kwargs['return_points'] is read before the loop.
Sr1HessianEnter ==
    /\ pc = "call"
    /\ caller = "sr1_hessian"
    /\ IF "return_points" \in kwargs.passed
         THEN pc' = "loop" /\ error' = error
         ELSE pc' = "raised" /\ error' = "KeyError"
    /\ UNCHANGED <<caller, kwargs, n_points, evaluator, point, gen, heap, sr1_output,
                   output_points, collected, result, trace>>
    /\ UNCHANGED varsGeom

\* A consumer that calls sr1_hessian_iter itself and keeps what it yields.
IterEnter ==
    /\ pc = "call"
    /\ caller = "iter"
    /\ pc' = "loop"
    /\ UNCHANGED <<caller, kwargs, n_points, evaluator, point, gen, heap, sr1_output,
                   output_points, collected, result, error, trace>>
    /\ UNCHANGED varsGeom

\* The generator's frame when a pull resumes it: the set-up of lines 34-40 on the
\* first pull, lines 66-68 and the loop increment on the later ones.
Resumed(g) ==
    IF ~g.started
      THEN [started |-> TRUE, i |-> 0, x_0 |-> point, x_k_minus_1 |-> point,
            gradient_k_minus_1 |-> vector_f(point), x_k |-> <<>>, gradient_k |-> <<>>,
            learning_rate |-> Opt("learning_rate"), hessian_approximation |-> 1]
      ELSE [g EXCEPT !.i = g.i + 1,
                     !.x_k_minus_1 = IF Opt("random_walk") THEN g.x_k ELSE @,
                     !.gradient_k_minus_1 = IF Opt("random_walk") THEN g.gradient_k ELSE @]

\* line 36: the seed, allocated once on the first pull.
HeapResumed(g) ==
    IF ~g.started THEN <<MatScale(Opt("initial_scale"), Eye(Len(point)))>> ELSE heap

\* lines 46-47
DecayedRate(g) ==
    IF Opt("lr_decay") /\ g.i = n_points \div 2
      THEN RatMul(g.learning_rate, <<1, 10>>)
      ELSE g.learning_rate

\* lines 57-61: the in-place rank-one update of the tensor.
Sr1Update(H, rank_1_vector, denominator, learning_rate) ==
    MatAdd(H, MatScale(learning_rate,
                       MatScale(RatDiv(One, denominator), Outer(rank_1_vector, rank_1_vector))))

\* One iteration of the loop body, lines 46-65, on frame g and heap h.
LoopBody(g, h, noise) ==
    LET learning_rate == DecayedRate(g)
        x_k == ProbePoint(g.x_0, g.x_k_minus_1, noise)
        delta_x_k == VecSub(x_k, g.x_k_minus_1)
        gradient_k == vector_f(x_k)
        y_k == VecSub(gradient_k, g.gradient_k_minus_1)
        H == h[g.hessian_approximation]
        rank_1_vector == VecSub(y_k, MatVec(H, delta_x_k))
        denominator == Dot(rank_1_vector, delta_x_k)
        accepted == Accepts(denominator, Opt("r"), delta_x_k, rank_1_vector)
        Hnew == IF accepted
                  THEN Sr1Update(H, rank_1_vector, denominator, learning_rate)
                  ELSE H
        ref == YieldedRef(g.hessian_approximation)
    IN  [gen |-> [g EXCEPT !.x_k = x_k, !.gradient_k = gradient_k,
                           !.learning_rate = learning_rate],
         heap |-> [h EXCEPT ![g.hessian_approximation] = Hnew],
         item |-> [ref |-> ref, x_k |-> x_k],
         step |-> [i |-> g.i, noise |-> noise, reference |-> g.x_k_minus_1,
                   x_k |-> x_k, delta_x_k |-> delta_x_k,
                   rank_1_vector |-> rank_1_vector,
                   denominator |-> denominator, accepted |-> accepted,
                   before |-> H, emitted |-> Hnew, ref |-> ref]]

\* One pull of the generator that runs a loop iteration up to its yield, and the
\* consumer's handling of the yielded value (sr1_hessian, lines 93-95).
GenStep ==
    /\ pc = "loop"
    /\ \E g \in {Resumed(gen)} :
         /\ g.i < n_points
         /\ \E noise \in Perturbations :
              \E s \in {LoopBody(g, HeapResumed(gen), noise)} :
                /\ gen' = s.gen
                /\ heap' = s.heap
                /\ trace' = Append(trace, s.step)
                /\ IF caller = "sr1_hessian"
                     THEN /\ sr1_output' = <<s.item>>
                          /\ output_points' = IF kwargs.val.return_points
                                                THEN Append(output_points, s.item.x_k)
                                                ELSE output_points
                          /\ collected' = collected
                     ELSE /\ collected' = Append(collected, s.item)
                          /\ UNCHANGED <<sr1_output, output_points>>
    /\ UNCHANGED <<caller, kwargs, n_points, evaluator, point, pc, result, error>>
    /\ UNCHANGED varsGeom

\* The pull that finds the loop exhausted, and what the consumer does then
\* (sr1_hessian, lines 96-99).
GenStop ==
    /\ pc = "loop"
    /\ \E g \in {Resumed(gen)}, h \in {HeapResumed(gen)} :
           /\ g.i >= n_points
           /\ gen' = g
           /\ heap' = h
           /\ IF caller = "iter"
                THEN pc' = "done" /\ UNCHANGED <<result, error>>
                ELSE IF sr1_output = <<>>
                       THEN pc' = "raised" /\ error' = "UnboundLocalError" /\ result' = result
                       ELSE /\ pc' = "done"
                            /\ error' = error
                            /\ result' = <<[hessian |-> h[sr1_output[1].ref],
                                            points |-> IF kwargs.val.return_points
                                                         THEN <<output_points>> ELSE <<>>]>>
    /\ UNCHANGED <<caller, kwargs, n_points, evaluator, point, sr1_output, output_points,
                   collected, trace>>
    /\ UNCHANGED varsGeom

NextSR1 == Sr1HessianEnter \/ IterEnter \/ GenStep \/ GenStop

SpecSR1 == InitSR1 /\ [][NextSR1]_vars

-----------------------------------------------------------------------------
(* Shape operators *)

SubSeqTo(v, n) == [i \in 1..n |-> v[i]]
RemoveAt(v, k) == [i \in 1..(Len(v) - 1) |-> IF i < k THEN v[i] ELSE v[i + 1]]
Minor(m, r, c) == [i \in 1..(Rows(m) - 1) |-> RemoveAt(RemoveAt(m, r)[i], c)]

RECURSIVE Det(_)
Det(m) ==
    IF Rows(m) = 0 THEN One
    ELSE IF Rows(m) = 1 THEN m[1][1]
    ELSE SumSeq([j \in 1..Rows(m) |->
            RatMul(IF j % 2 = 1 THEN m[1][j] ELSE RatNeg(m[1][j]), Det(Minor(m, 1, j)))])

Inverse(m) ==
    LET d == Det(m)
    IN  [i \in 1..Rows(m) |-> [j \in 1..Rows(m) |->
            RatDiv(IF (i + j) % 2 = 0 THEN Det(Minor(m, j, i)) ELSE RatNeg(Det(Minor(m, j, i))), d)]]

\* torch.linalg.solve(A, B): the X with A X = B.
Solve(A, B) == MatMul(Inverse(A), B)

\* A matrix divided by a square root: num / sqrt(sq).
Scaled(num, sq) == [num |-> num, sq |-> sq]

\* get_shape_operator_graph: -(I + g g^T)^-1 H / sqrt(|g|^2 + 1)
get_shape_operator_graph(g, H) ==
    LET normalization_sq == RatAdd(NormSq(g), One)
        metric_tensor == MatAdd(Eye(Len(g)), Outer(g, g))
    IN  Scaled(MatScale(<<-1, 1>>, Solve(metric_tensor, H)), normalization_sq)

\* line 234: the threshold below which the gradient is reported close to singular.
NearSingularThreshold == <<1, 10000000>>

\* A guard that treats every gradient below the warning threshold as singular.
SingularWithinThreshold(pt_grad_b) == RatLt(RatAbs(pt_grad_b), NearSingularThreshold)

\* line 231: the singular-gradient guard.
SingularGradient(pt_grad_b) == pt_grad_b = Zero

\* line 234: the close-to-singular warning.
NearSingular(pt_grad_b) == RatLt(RatAbs(pt_grad_b), NearSingularThreshold)

\* An orientation test with the sign reversed.
FlipWhenNegative(pt_grad_b) == RatLt(pt_grad_b, Zero)

\* line 256: the orientation fix applies when g_b > 0.
OrientationFlip(pt_grad_b) == RatGt(pt_grad_b, Zero)

\* line 215: the gradient in the new coordinates.
RotateGradient(C, g) == MatVec(Transpose(C), g)

\* lines 218-221: the Hessian in the new coordinates.
RotateHessian(C, H) == MatMul(C, MatMul(H, Transpose(C)))

\* lines 248-254, with the broadcasting of the (1, M-1) row pt_hess_ab.T against
\* the (M-1, M-1) matrix grad_g + grad_g.T written out entry by entry.
ImplicitHessian(pt_grad_b, grad_g, pt_hess_aa, pt_hess_ab, pt_hess_bb) ==
    [i \in 1..Len(grad_g) |-> [j \in 1..Len(grad_g) |->
        RatMul(RatDiv(<<-1, 1>>, pt_grad_b),
               RatAdd(RatAdd(RatMul(pt_hess_ab[j], RatAdd(grad_g[i], grad_g[j])),
                             RatMul(pt_hess_bb, RatMul(grad_g[i], grad_g[j]))),
                      pt_hess_aa[i][j]))]]

get_shape_operator_isoresponse_surface(g, H, C0) ==
    LET M == Len(g)
        C == IF C0 = <<>> THEN Eye(M) ELSE C0
        rot_grad == RotateGradient(C, g)
        rot_hess == RotateHessian(C, H)
        pt_grad_a == SubSeqTo(rot_grad, M - 1)
        pt_grad_b == rot_grad[M]
        pt_hess_aa == [i \in 1..(M - 1) |-> SubSeqTo(rot_hess[i], M - 1)]
        pt_hess_ab == [i \in 1..(M - 1) |-> rot_hess[i][M]]
        pt_hess_bb == rot_hess[M][M]
    IN  IF SingularGradient(pt_grad_b)
          THEN [status |-> "ValueError", returned |-> <<>>, warned |-> FALSE,
                rotated_grad |-> rot_grad, rotated_hess |-> rot_hess]
          ELSE
            LET grad_g0 == VecScale(RatDiv(<<-1, 1>>, pt_grad_b), pt_grad_a)
                embedding_differential ==
                    MatMul(Transpose(C), Append(Eye(M - 1), grad_g0))
                hess_g0 == ImplicitHessian(pt_grad_b, grad_g0, pt_hess_aa, pt_hess_ab, pt_hess_bb)
                flip == OrientationFlip(pt_grad_b)
                grad_g == IF flip THEN VecScale(<<-1, 1>>, grad_g0) ELSE grad_g0
                hess_g == IF flip THEN MatScale(<<-1, 1>>, hess_g0) ELSE hess_g0
                normalization_sq == RatAdd(NormSq(grad_g), One)
                metric_tensor == MatAdd(Eye(M - 1), Outer(grad_g, grad_g))
                shape_operator ==
                    Scaled(MatScale(<<-1, 1>>, Solve(metric_tensor, hess_g)), normalization_sq)
            IN  [status |-> "ok",
                 returned |-> <<shape_operator, embedding_differential, metric_tensor>>,
                 warned |-> NearSingular(pt_grad_b),
                 rotated_grad |-> rot_grad, rotated_hess |-> rot_hess,
                 implicit_grad |-> grad_g0, implicit_hess |-> hess_g0]

-----------------------------------------------------------------------------
(* Principal curvatures *)

\* np.linalg.eig returns unit eigenvectors; which basis of an eigenspace, in
\* which order and with which signs is the solver's choice.  The model draws the
\* eigenvectors from the directions with entries in -1..1, each standing for
\* the unit vector vec / sqrt(vec.vec).
EigDirections(n) == {v \in [1..n -> {-1, 0, 1}] : \E i \in 1..n : v[i] # 0}

EigPairs(N) ==
    {[val |-> RatDiv(MatVec(N, IntVec(v))[CHOOSE i \in 1..Len(v) : v[i] # 0],
                     Int2Rat(v[CHOOSE i \in 1..Len(v) : v[i] # 0])),
      vec |-> IntVec(v)] : v \in EigDirections(Rows(N))}

EigBases(N) ==
    LET pairs == {e \in EigPairs(N) : MatVec(N, e.vec) = VecScale(e.val, e.vec)}
    IN  {b \in [1..Rows(N) -> pairs] : Det([i \in 1..Rows(N) |-> b[i].vec]) # Zero}

\* torch.argsort(..., descending=True): any order that is non-increasing.
SortIndices(values) ==
    {p \in [1..Len(values) -> 1..Len(values)] :
        /\ \A i, j \in 1..Len(values) : i # j => p[i] # p[j]
        /\ \A i \in 1..(Len(values) - 1) : ~RatLt(values[p[i]], values[p[i + 1]])}

\* scipy.linalg.orth: an orthonormal basis of the row space of P1 (given here by
\* rows).  The model covers row spaces spanned by coordinate axes and draws the
\* basis from the signed unit vectors.
AxisSets(n) == SUBSET (1..n)
SpansAxes(P1, J) ==
    /\ \A r \in 1..Rows(P1) : \A j \in 1..Cols(P1) : j \notin J => P1[r][j] = Zero
    /\ \A j \in J : \E r \in 1..Rows(P1) : P1[r][j] # Zero
    /\ \E rows \in [1..Cardinality(J) -> 1..Rows(P1)] :
          \E cols \in [1..Cardinality(J) -> J] :
              Det([a \in 1..Cardinality(J) |-> [b \in 1..Cardinality(J) |->
                      P1[rows[a]][cols[b]]]]) # Zero
orth(P1) ==
    UNION {{[a \in 1..Cardinality(J) |-> [j \in 1..Cols(P1) |->
                 IF j = axis[a] THEN Int2Rat(sign[a]) ELSE Zero]]
            : axis \in {f \in [1..Cardinality(J) -> J] :
                          \A a, b \in 1..Cardinality(J) : a # b => f[a] # f[b]},
              sign \in [1..Cardinality(J) -> {-1, 1}]}
           : J \in {K \in AxisSets(Cols(P1)) : K # {} /\ SpansAxes(P1, K)}}

\* A direction vec / sqrt(sq).
Direction(vec, sq) == [vec |-> vec, sq |-> sq]
\* v^T G v of a direction.
MetricNormSq(d, G) == RatDiv(Dot(d.vec, MatVec(G, d.vec)), d.sq)
\* lines 336-340: divide a direction by the square root of its metric norm.
MetricNormalize(d, G) == Direction(d.vec, RatMul(d.sq, MetricNormSq(d, G)))
MapDirection(m, d) == Direction(MatVec(m, d.vec), d.sq)

local_response_curvature_graph(g, H, basis, sort_indices) ==
    LET shape_operator == get_shape_operator_graph(g, H)
        n == Len(basis)
        principal_curvatures == [i \in 1..n |-> [q |-> basis[i].val, sq |-> shape_operator.sq]]
        principal_directions ==
            [i \in 1..n |-> Direction(basis[i].vec, NormSq(basis[i].vec))]
    IN  [status |-> "ok",
         returned |-> <<shape_operator,
                        [i \in 1..n |-> principal_curvatures[sort_indices[i]]],
                        [i \in 1..n |-> principal_directions[sort_indices[i]]]>>]

\* line 313: projection_subspace_of_interest[:, :-1]
DropLastColumn(P) == [r \in 1..Rows(P) |-> SubSeqTo(P[r], Cols(P) - 1)]

\* lines 311-320: the shape operator the eigen-decomposition is applied to.
\* so is the outcome of get_shape_operator_isoresponse_surface (status "ok"),
\* Q the restriction (<<>> when no subspace is given).
RestrictedShapeOperator(so, Q) ==
    IF Q = <<>> THEN so.returned[1]
    ELSE Scaled(MatMul(MatMul(Q, so.returned[1].num), Transpose(Q)), so.returned[1].sq)

\* lines 327-347, after the shape operator has been computed and restricted.
local_response_curvature_isoresponse_surface(so, Q, basis, sort_indices) ==
    LET shape_operator == RestrictedShapeOperator(so, Q)
        embedding_differential == so.returned[2]
        metric_tensor == so.returned[3]
        n == Len(basis)
        principal_curvatures == [i \in 1..n |-> [q |-> basis[i].val, sq |-> shape_operator.sq]]
        eig_directions == [i \in 1..n |-> Direction(basis[i].vec, NormSq(basis[i].vec))]
    IN  IF n # Rows(metric_tensor)
          THEN \* line 338: the metric is (M-1)x(M-1), the direction has n entries
               [status |-> "RuntimeError", returned |-> <<>>]
          ELSE
            LET normed == [i \in 1..n |-> MetricNormalize(eig_directions[i], metric_tensor)]
                lifted == IF Q = <<>> THEN normed
                          ELSE [i \in 1..n |-> MapDirection(Transpose(Q), normed[i])]
                principal_directions ==
                    [i \in 1..n |-> MapDirection(embedding_differential, lifted[i])]
            IN  [status |-> "ok",
                 returned |-> <<shape_operator,
                                [i \in 1..n |-> principal_curvatures[sort_indices[i]]],
                                [i \in 1..n |-> principal_directions[sort_indices[i]]]>>,
                 reduced_directions |-> [i \in 1..n |-> normed[sort_indices[i]]],
                 metric_tensor |-> metric_tensor,
                 projection_from_isosurface |-> Q]

-----------------------------------------------------------------------------
(* Calls of the geometry functions *)

Small == <<1, 100000000>>
Cyclic == IntMat(<<<<0, 1, 0>>, <<0, 0, 1>>, <<1, 0, 0>>>>)
Transforms == {<<>>, Eye(3), Cyclic}

ShapeGradients ==
    {IntVec(<<0, 0, -1>>), IntVec(<<0, 0, 1>>), IntVec(<<1, 0, -1>>), IntVec(<<1, 2, 1>>),
     IntVec(<<1, 0, 0>>), IntVec(<<0, 1, 0>>), IntVec(<<2, -1, 2>>),
     <<Zero, Zero, Small>>, <<Zero, Zero, RatNeg(Small)>>}
ShapeHessians ==
    {IntMat(<<<<2, 0, 0>>, <<0, 2, 0>>, <<0, 0, 0>>>>),
     IntMat(<<<<2, 0, 1>>, <<0, 2, 0>>, <<1, 0, 0>>>>),
     IntMat(<<<<1, 1, 1>>, <<1, 2, 0>>, <<1, 0, 3>>>>)}

CurvGradients ==
    {IntVec(<<0, 0, -1>>), IntVec(<<0, 0, 1>>), IntVec(<<1, 0, -1>>), IntVec(<<1, 1, 1>>),
     IntVec(<<1, 0, 0>>), <<Zero, Zero, Small>>}
CurvHessians ==
    {IntMat(<<<<2, 0, 0>>, <<0, 2, 0>>, <<0, 0, 0>>>>),
     IntMat(<<<<1, 0, 0>>, <<0, 1, 0>>, <<0, 0, 3>>>>),
     IntMat(<<<<2, 1, 0>>, <<1, 2, 0>>, <<0, 0, 1>>>>)}
Projections ==
    {<<>>,
     IntMat(<<<<1, 0, 0>>>>),
     IntMat(<<<<1, 0, 0>>, <<0, 1, 0>>>>),
     IntMat(<<<<0, 1, 0>>, <<0, 0, 1>>>>),
     IntMat(<<<<1, 0, 0>>, <<0, 1, 0>>, <<0, 0, 1>>>>)}

GraphGradients == {IntVec(<<0, 0>>), IntVec(<<1, 0>>), IntVec(<<1, 1>>), IntVec(<<0, 2>>)}
GraphHessians ==
    {IntMat(<<<<2, 0>>, <<0, 2>>>>), IntMat(<<<<1, 0>>, <<0, 3>>>>),
     IntMat(<<<<2, 1>>, <<1, 2>>>>)}

\* The restrictions a subspace argument can lead to.
Restrictions(P) == IF P = <<>> THEN {<<>>} ELSE orth(DropLastColumn(P))

\* The inputs whose eigen-decomposition lies in the range the model draws
\* eigenvectors from.
IsoInRange(g, H, C, P) ==
    \E so \in {get_shape_operator_isoresponse_surface(g, H, C)} :
        \/ so.status # "ok"
        \/ /\ Restrictions(P) # {}
           /\ \A Q \in Restrictions(P) : EigBases(RestrictedShapeOperator(so, Q).num) # {}
GraphInRange(g, H) == EigBases(get_shape_operator_graph(g, H).num) # {}

SR1Idle ==
    /\ caller = "none"
    /\ kwargs = [passed |-> {}, val |-> Defaults]
    /\ n_points = 0
    /\ evaluator = <<>>
    /\ point = <<>>
    /\ pc = "idle"
    /\ gen = NoFrame
    /\ heap = <<>>
    /\ sr1_output = <<>>
    /\ output_points = <<>>
    /\ collected = <<>>
    /\ result = <<>>
    /\ error = "none"
    /\ trace = <<>>

InitGeom ==
    /\ SR1Idle
    /\ out = <<>>
    /\ \/ /\ op = "get_shape_operator_isoresponse_surface"
          /\ pt_grad \in ShapeGradients
          /\ pt_hess \in ShapeHessians
          /\ coordinate_transformation \in Transforms
          /\ projection_subspace_of_interest = <<>>
       \/ /\ op = "local_response_curvature_isoresponse_surface"
          /\ pt_grad \in CurvGradients
          /\ pt_hess \in CurvHessians
          /\ coordinate_transformation \in Transforms
          /\ projection_subspace_of_interest \in Projections
          /\ IsoInRange(pt_grad, pt_hess, coordinate_transformation,
                        projection_subspace_of_interest)
       \/ /\ op = "local_response_curvature_graph"
          /\ pt_grad \in GraphGradients
          /\ pt_hess \in GraphHessians
          /\ coordinate_transformation = <<>>
          /\ projection_subspace_of_interest = <<>>
          /\ GraphInRange(pt_grad, pt_hess)

CallShapeOperatorIso ==
    /\ op = "get_shape_operator_isoresponse_surface"
    /\ out = <<>>
    /\ out' = get_shape_operator_isoresponse_surface(pt_grad, pt_hess, coordinate_transformation)
    /\ UNCHANGED <<pt_grad, pt_hess, coordinate_transformation,
                   projection_subspace_of_interest, op>>
    /\ UNCHANGED varsSR1

CallCurvatureIso ==
    /\ op = "local_response_curvature_isoresponse_surface"
    /\ out = <<>>
    /\ \E so \in {get_shape_operator_isoresponse_surface(pt_grad, pt_hess,
                                                         coordinate_transformation)} :
         IF so.status # "ok"
           THEN out' = [status |-> so.status, returned |-> <<>>]
           ELSE \E Q \in Restrictions(projection_subspace_of_interest) :
                  \E basis \in EigBases(RestrictedShapeOperator(so, Q).num) :
                    \E sort_indices \in SortIndices([i \in 1..Len(basis) |-> basis[i].val]) :
                      out' = local_response_curvature_isoresponse_surface(
                                 so, Q, basis, sort_indices)
    /\ UNCHANGED <<pt_grad, pt_hess, coordinate_transformation,
                   projection_subspace_of_interest, op>>
    /\ UNCHANGED varsSR1

CallCurvatureGraph ==
    /\ op = "local_response_curvature_graph"
    /\ out = <<>>
    /\ \E basis \in EigBases(get_shape_operator_graph(pt_grad, pt_hess).num) :
         \E sort_indices \in SortIndices([i \in 1..Len(basis) |-> basis[i].val]) :
           out' = local_response_curvature_graph(pt_grad, pt_hess, basis, sort_indices)
    /\ UNCHANGED <<pt_grad, pt_hess, coordinate_transformation,
                   projection_subspace_of_interest, op>>
    /\ UNCHANGED varsSR1

NextGeom == CallShapeOperatorIso \/ CallCurvatureIso \/ CallCurvatureGraph

SpecGeom == InitGeom /\ [][NextGeom]_vars

-----------------------------------------------------------------------------
(* The whole program: a run of the approximator or a call of a geometry function *)

Init == InitSR1 \/ InitGeom
Next == NextSR1 \/ NextGeom
Spec == Init /\ [][Next]_vars

-----------------------------------------------------------------------------
(* Claims about the SR1 approximator *)

Seed == MatScale(Opt("initial_scale"), Eye(Len(point)))
EmittedBefore(k) == IF k = 1 THEN Seed ELSE trace[k - 1].emitted

\* The rejection condition as the claim states it: |denom| <= tolerance * ||delta_x|| * ||r||.
Rejected(k) ==
    ~RatGt(RatMul(trace[k].denominator, trace[k].denominator),
           RatMul(RatMul(Opt("r"), Opt("r")),
                  RatMul(NormSq(trace[k].delta_x_k), NormSq(trace[k].rank_1_vector))))

\* C2 as stated: at every step the probe point is the step's perturbation added
\* to the current reference point, the anchor when random_walk is false and the
\* previous probe when it is true, so that delta_x_k is the perturbation.
C2_ProbeAddsToReference ==
    \A k \in 1..Len(trace) :
        LET reference == IF Opt("random_walk") /\ k > 1 THEN trace[k - 1].x_k ELSE point
        IN  /\ trace[k].x_k = VecAdd(reference, trace[k].noise)
            /\ trace[k].delta_x_k = trace[k].noise

\* C2 amended: at every step the probe point is the step's perturbation added
\* to the anchor x_0, whatever random_walk is; random_walk selects the point
\* delta_x_k is measured from, the anchor when false (delta_x_k is the
\* perturbation) and the previous probe when true (delta_x_k is the difference
\* of this step's and the previous step's perturbations).
C2_ProbeAddsToAnchor ==
    \A k \in 1..Len(trace) :
        /\ trace[k].x_k = VecAdd(point, trace[k].noise)
        /\ trace[k].delta_x_k =
              IF Opt("random_walk") /\ k > 1
                THEN VecSub(trace[k].noise, trace[k - 1].noise)
                ELSE trace[k].noise

\* Witness of C2: a second probe under random_walk that differs from its perturbation added to
\* the first probe.
C2_Witness ==
    /\ Opt("random_walk")
    /\ Len(trace) >= 2
    /\ trace[2].x_k # VecAdd(trace[1].x_k, trace[2].noise)
    /\ trace[2].delta_x_k = VecSub(trace[2].x_k, trace[1].x_k)

\* C3: a step whose acceptance test fails emits the Hessian of the step before
\* it (the seed initial_scale * I while no update has been accepted); the step
\* is emitted all the same and nothing is raised.
C3_RejectionKeepsHessian ==
    /\ \A k \in 1..Len(trace) :
          /\ Rejected(k) => trace[k].emitted = EmittedBefore(k)
          /\ (\A j \in 1..k : Rejected(j)) => trace[k].emitted = Seed
    /\ trace # <<>> => heap[trace[Len(trace)].ref] = trace[Len(trace)].emitted
    /\ caller = "iter" => Len(collected) = Len(trace) /\ error = "none"

\* Witness of C3: a rejected step with a nonzero denominator, after an accepted
\* update, that a collecting consumer received.
C3_Witness ==
    /\ caller = "iter"
    /\ \E k \in 2..Len(trace) :
          /\ Rejected(k)
          /\ trace[k].denominator # Zero
          /\ trace[k].emitted # Seed
          /\ Len(collected) >= k

\* C4: with an evaluator that never fails the aggregator never fails, whatever
\* options are passed and for every n_points >= 0; it returns the last snapshot
\* and, when asked, the n_points probe points.
C4_AggregatorNeverFails ==
    caller = "sr1_hessian" =>
        /\ error = "none"
        /\ pc = "done" =>
              /\ result[1].hessian = trace[Len(trace)].emitted
              /\ Opt("return_points") => Len(result[1].points[1]) = n_points

\* C10: a snapshot a consumer holds keeps the value it had when it was emitted.
C10_SnapshotsKeepValue ==
    caller = "iter" =>
        \A j \in 1..Len(collected) : heap[collected[j].ref] = trace[j].emitted

-----------------------------------------------------------------------------
(* Claims about the geometry functions *)

IsoShapeOp == "get_shape_operator_isoresponse_surface"
IsoCurvature == "local_response_curvature_isoresponse_surface"
GraphCurvature == "local_response_curvature_graph"

EffectiveTransform ==
    IF coordinate_transformation = <<>> THEN Eye(Len(pt_grad)) ELSE coordinate_transformation

\* f(x, y, z) = x^2 + y^2 - z at the origin, identity coordinates.
ParaboloidCall ==
    /\ op \in {IsoShapeOp, IsoCurvature}
    /\ pt_grad = IntVec(<<0, 0, -1>>)
    /\ pt_hess = IntMat(<<<<2, 0, 0>>, <<0, 2, 0>>, <<0, 0, 0>>>>)
    /\ coordinate_transformation \in {<<>>, Eye(3)}
    /\ projection_subspace_of_interest = <<>>

\* Both eigenvalues of the 2x2 shape operator S equal lambda: its characteristic
\* polynomial is (x - lambda)^2.
BothEigenvaluesAre(S, lambda) ==
    /\ Rows(S.num) = 2 /\ Cols(S.num) = 2
    /\ S.sq = One
    /\ RatAdd(S.num[1][1], S.num[2][2]) = RatAdd(lambda, lambda)
    /\ Det(S.num) = RatMul(lambda, lambda)

\* C1 as stated: for the paraboloid the iso-surface shape operator is a 2x2
\* matrix with eigenvalues {2, 2} and the curvatures returned are (2, 2).
C1_ParaboloidEigenvaluesPlus2 ==
    (ParaboloidCall /\ out # <<>>) =>
        /\ out.status = "ok"
        /\ BothEigenvaluesAre(out.returned[1], <<2, 1>>)
        /\ op = IsoCurvature =>
              out.returned[2] = <<[q |-> <<2, 1>>, sq |-> One], [q |-> <<2, 1>>, sq |-> One]>>

\* C1 amended: for the paraboloid the iso-surface shape operator is a 2x2 matrix
\* with eigenvalues {-2, -2} and the curvatures returned are (-2, -2).
C1_ParaboloidEigenvaluesMinus2 ==
    (ParaboloidCall /\ out # <<>>) =>
        /\ out.status = "ok"
        /\ BothEigenvaluesAre(out.returned[1], <<-2, 1>>)
        /\ op = IsoCurvature =>
              out.returned[2] = <<[q |-> <<-2, 1>>, sq |-> One], [q |-> <<-2, 1>>, sq |-> One]>>

\* Witness of C1: the curvature call on the paraboloid has returned.
C1_Witness ==
    /\ ParaboloidCall
    /\ op = IsoCurvature
    /\ out # <<>>
    /\ out.status = "ok"
    /\ Len(out.returned[2]) = 2

\* C5: the function raises the singular-gradient error, returning nothing,
\* exactly when the last component g_b of the rotated gradient is zero; for
\* every other g_b, also below 1e-7 in magnitude, it warns at most and returns
\* the shape operator, the embedding differential and the metric tensor.
C5_SingularGuard ==
    (op = IsoShapeOp /\ out # <<>>) =>
        LET M == Len(pt_grad)
            g_b == out.rotated_grad[M]
        IN  /\ out.status = "ValueError" <=> g_b = Zero
            /\ out.status = "ValueError" => out.returned = <<>>
            /\ g_b # Zero =>
                  /\ out.status = "ok"
                  /\ Len(out.returned) = 3
                  /\ Rows(out.returned[1].num) = M - 1
                  /\ Rows(out.returned[2]) = M
                  /\ Rows(out.returned[3]) = M - 1
                  /\ out.warned <=> RatLt(RatAbs(g_b), <<1, 10000000>>)

\* Witness of C5: a call with 0 < |g_b| < 1e-7 that warned and returned.
C5_Witness ==
    /\ op = IsoShapeOp
    /\ out # <<>>
    /\ out.rotated_grad[Len(pt_grad)] # Zero
    /\ RatLt(RatAbs(out.rotated_grad[Len(pt_grad)]), <<1, 10000000>>)
    /\ out.status = "ok"
    /\ out.warned
    /\ Len(out.returned) = 3

\* C6: with a subspace projection whose restriction has rank k' <= M-1, the
\* call completes and returns the k' x k' operator P S P^T, k' curvatures and
\* k' directions of ambient dimension M.
C6_RestrictionCompletes ==
    (op = IsoCurvature /\ out # <<>> /\ projection_subspace_of_interest # <<>>
        /\ out.status # "ValueError") =>
        /\ out.status = "ok"
        /\ LET Q == out.projection_from_isosurface
               so == get_shape_operator_isoresponse_surface(pt_grad, pt_hess,
                                                            coordinate_transformation)
           IN  /\ Q \in orth(DropLastColumn(projection_subspace_of_interest))
               /\ out.returned[1].num = MatMul(MatMul(Q, so.returned[1].num), Transpose(Q))
               /\ Len(out.returned[2]) = Rows(Q)
               /\ Len(out.returned[3]) = Rows(Q)
               /\ \A i \in 1..Len(out.returned[3]) :
                     Len(out.returned[3][i].vec) = Len(pt_grad)

\* C7: every principal direction returned by the two extractors has metric
\* norm 1: v^T (I + g g^T) v = 1 for the graph, and the reduced direction under
\* the reduced metric for the iso-surface.
C7_MetricNormalized ==
    (out # <<>> /\ out.status = "ok") =>
        /\ op = GraphCurvature =>
              \A i \in 1..Len(out.returned[3]) :
                  MetricNormSq(out.returned[3][i],
                               MatAdd(Eye(Len(pt_grad)), Outer(pt_grad, pt_grad))) = One
        /\ op = IsoCurvature =>
              \A i \in 1..Len(out.reduced_directions) :
                  MetricNormSq(out.reduced_directions[i], out.metric_tensor) = One

\* C8: gradient and Hessian are rotated into the same coordinates: the rotated
\* gradient is C g where the rotated Hessian is C H C^T.
C8_SameRotation ==
    (op = IsoShapeOp /\ out # <<>>) =>
        /\ out.rotated_hess =
              MatMul(EffectiveTransform, MatMul(pt_hess, Transpose(EffectiveTransform)))
        /\ out.rotated_grad = MatVec(EffectiveTransform, pt_grad)

\* C9: for a symmetric Hessian and g_b # 0 the implicit-function Hessian is
\* symmetric and equals
\* (-1/g_b) (H_ab grad_g^T + grad_g H_ab^T + H_bb grad_g grad_g^T + H_aa).
C9_ImplicitHessianSymmetric ==
    (op = IsoShapeOp /\ out # <<>> /\ out.status = "ok") =>
        LET M == Len(pt_grad)
            Hr == out.rotated_hess
            g_b == out.rotated_grad[M]
            gg == out.implicit_grad
        IN  \A i, j \in 1..(M - 1) :
                /\ out.implicit_hess[i][j] = out.implicit_hess[j][i]
                /\ out.implicit_hess[i][j] =
                      RatMul(RatDiv(<<-1, 1>>, g_b),
                             RatAdd(RatAdd(RatAdd(RatMul(Hr[i][M], gg[j]),
                                                  RatMul(gg[i], Hr[j][M])),
                                           RatMul(Hr[M][M], RatMul(gg[i], gg[j]))),
                                    Hr[i][j]))
====
